---- MODULE Spec2Model ----
(***************************************************************************)
(* Model of crates/test_utils/src/fixture.rs: Fixture::parse,              *)
(* Fixture::parse_meta_line, MiniCore::parse and MiniCore::source_code.    *)
(* A Rust string is a sequence of one-character strings.                   *)
(***************************************************************************)
EXTENDS Integers, Sequences, FiniteSets, TLC

\* ------------------------------------------------------------------------
\* String primitives (Rust std / stdx), computed as the library computes them
\* ------------------------------------------------------------------------

\* char::is_whitespace over the characters the model uses
WhiteSpace == {" ", "\n", "\t", "\r"}

\* char::is_uppercase
UpperCase == {"A", "B", "C", "D", "E", "F", "G", "H", "I", "J", "K", "L", "M",
              "N", "O", "P", "Q", "R", "S", "T", "U", "V", "W", "X", "Y", "Z"}

\* Option<T>: None is <<>>, Some(v) is <<v>>
None == <<>>

Some(v) == <<v>>

\* &s[n..]
Drop(s, n) == SubSeq(s, n + 1, Len(s))

\* str::starts_with
StartsWith(s, p) == Len(p) <= Len(s) /\ SubSeq(s, 1, Len(p)) = p

\* str::find: 1-based index of the first occurrence of p in s, 0 when absent
Find(s, p) ==
    LET hits == {i \in 1..(Len(s) - Len(p) + 1) : SubSeq(s, i, i + Len(p) - 1) = p}
    IN  IF hits = {} THEN 0 ELSE CHOOSE i \in hits : \A j \in hits : i <= j

\* str::contains
Contains(s, p) == Find(s, p) # 0

\* str::split(sep): the pieces between non-overlapping occurrences, left to
\* right; always at least one piece
RECURSIVE Split(_, _)
Split(s, sep) ==
    LET i == Find(s, sep)
    IN  IF i = 0 THEN <<s>>
        ELSE <<SubSeq(s, 1, i - 1)>> \o Split(Drop(s, i + Len(sep) - 1), sep)

\* stdx::split_once: Some((before, after)) around the first sep, else None
split_once(s, sep) ==
    LET i == Find(s, sep)
    IN  IF i = 0 THEN None
        ELSE Some(<<SubSeq(s, 1, i - 1), Drop(s, i + Len(sep) - 1)>>)

\* str::trim_start
RECURSIVE TrimStart(_)
TrimStart(s) ==
    IF s # <<>> /\ Head(s) \in WhiteSpace THEN TrimStart(Tail(s)) ELSE s

\* str::trim_end
RECURSIVE TrimEnd(_)
TrimEnd(s) ==
    IF s # <<>> /\ s[Len(s)] \in WhiteSpace
    THEN TrimEnd(SubSeq(s, 1, Len(s) - 1)) ELSE s

\* str::trim
Trim(s) == TrimEnd(TrimStart(s))

\* str::trim_start_matches(' ')
RECURSIVE TrimStartSpaces(_)
TrimStartSpaces(s) ==
    IF s # <<>> /\ Head(s) = " " THEN TrimStartSpaces(Tail(s)) ELSE s

\* str::split_ascii_whitespace: the maximal runs of non-whitespace
RECURSIVE split_ascii_whitespace(_)
split_ascii_whitespace(s) ==
    LET t == TrimStart(s)
        stops == {i \in 1..Len(t) : t[i] \in WhiteSpace}
        e == IF stops = {} THEN Len(t) + 1
             ELSE CHOOSE i \in stops : \A j \in stops : i <= j
    IN  IF t = <<>> THEN <<>>
        ELSE <<SubSeq(t, 1, e - 1)>> \o split_ascii_whitespace(Drop(t, e - 1))

\* stdx::lines_with_ends: the lines of the text, each with its terminator
RECURSIVE lines_with_ends(_)
lines_with_ends(text) ==
    IF text = <<>> THEN <<>>
    ELSE LET f == Find(text, <<"\n">>)
             idx == IF f = 0 THEN Len(text) ELSE f
         IN  <<SubSeq(text, 1, idx)>> \o lines_with_ends(Drop(text, idx))

\* str::lines: the lines without their terminators
StrLines(text) ==
    LET ls == lines_with_ends(text)
    IN  [i \in 1..Len(ls) |->
            IF ls[i][Len(ls[i])] = "\n" THEN SubSeq(ls[i], 1, Len(ls[i]) - 1)
            ELSE ls[i]]

\* String::push_str over a sequence of pieces (Iterator::collect::<String>)
RECURSIVE Concat(_)
Concat(ss) == IF ss = <<>> THEN <<>> ELSE Head(ss) \o Concat(Tail(ss))

\* stdx::trim_indent: drop one leading newline, then remove the smallest
\* indentation of the non-blank lines from every line
trim_indent(text0) ==
    LET text == IF StartsWith(text0, <<"\n">>) THEN Drop(text0, 1) ELSE text0
        ls == StrLines(text)
        widths == {Len(ls[i]) - Len(TrimStart(ls[i])) :
                     i \in {j \in 1..Len(ls) : Trim(ls[j]) # <<>>}}
        indent == IF widths = {} THEN 0
                  ELSE CHOOSE w \in widths : \A v \in widths : w <= v
        le == lines_with_ends(text)
    IN  Concat([i \in 1..Len(le) |->
                  IF Len(le[i]) <= indent THEN TrimStartSpaces(le[i])
                  ELSE Drop(le[i], indent)])

\* ------------------------------------------------------------------------
\* Fixture and MiniCore values
\* ------------------------------------------------------------------------

\* the annotation marker "//-"
MetaMarker == <<"/", "/", "-">>

\* the flag-declaration marker
MiniCoreMarker == <<"/", "/", "-", " ", "m", "i", "n", "i", "c", "o", "r", "e", ":">>

\* the implicit annotation line of a fixture without metadata
DefaultMeta == <<"/", "/", "-", " ", "/", "m", "a", "i", "n", ".", "r", "s">>

\* FxHashMap::insert on a map kept as a set of <<key, value>> pairs
EnvInsert(env, k, v) == {p \in env : p[1] # k} \cup {<<k, v>>}

\* the locals of parse_meta_line before the component loop
NewFixture(path) ==
    [path |-> path, text |-> <<>>, krate |-> None, deps |-> <<>>,
     cfg_atoms |-> <<>>, cfg_key_values |-> <<>>, edition |-> None,
     env |-> {}, introduce_new_source_root |-> FALSE]

\* the `cfg` arm: every entry with `=` becomes a pair, every other an atom
RECURSIVE CfgEntries(_, _)
CfgEntries(fx, entries) ==
    IF entries = <<>> THEN fx
    ELSE LET kv == split_once(Head(entries), <<"=">>)
             nx == IF kv # None
                   THEN [fx EXCEPT !.cfg_key_values = Append(@, kv[1])]
                   ELSE [fx EXCEPT !.cfg_atoms = Append(@, Head(entries))]
         IN  CfgEntries(nx, Tail(entries))

\* the `env` arm: entries without `=` are skipped
RECURSIVE EnvEntries(_, _)
EnvEntries(fx, entries) ==
    IF entries = <<>> THEN fx
    ELSE LET kv == split_once(Head(entries), <<"=">>)
             nx == IF kv # None
                   THEN [fx EXCEPT !.env = EnvInsert(@, kv[1][1], kv[1][2])]
                   ELSE fx
         IN  EnvEntries(nx, Tail(entries))

\* faulty variant used against C7: a component without a colon is taken as a key with no value
ComponentKeyValue_lenient(component) ==
    LET splitted == Split(component, <<":">>)
    IN  IF Len(splitted) >= 2 THEN Some(<<splitted[1], splitted[2]>>)
        ELSE Some(<<splitted[1], <<>>>>)

\* key and value of one component: the first two pieces of split(':')
ComponentKeyValue(component) ==
    LET splitted == Split(component, <<":">>)
    IN  IF Len(splitted) >= 2 THEN Some(<<splitted[1], splitted[2]>>) ELSE None

\* one iteration of the component loop; st = [err, fx]
MetaComponent(st, component) ==
    LET kv == ComponentKeyValue(component)
        key == kv[1][1]
        value == kv[1][2]
        fx == st.fx
    IN  IF kv = None THEN [st EXCEPT !.err = "invalid meta line"]
        ELSE IF key = <<"c", "r", "a", "t", "e">>
             THEN [st EXCEPT !.fx = [fx EXCEPT !.krate = Some(value)]]
        ELSE IF key = <<"d", "e", "p", "s">>
             THEN [st EXCEPT !.fx = [fx EXCEPT !.deps = Split(value, <<",">>)]]
        ELSE IF key = <<"e", "d", "i", "t", "i", "o", "n">>
             THEN [st EXCEPT !.fx = [fx EXCEPT !.edition = Some(value)]]
        ELSE IF key = <<"c", "f", "g">>
             THEN [st EXCEPT !.fx = CfgEntries(fx, Split(value, <<",">>))]
        ELSE IF key = <<"e", "n", "v">>
             THEN [st EXCEPT !.fx = EnvEntries(fx, Split(value, <<",">>))]
        ELSE IF key = <<"n", "e", "w", "_", "s", "o", "u", "r", "c", "e", "_", "r", "o", "o", "t">>
             THEN [st EXCEPT !.fx = [fx EXCEPT !.introduce_new_source_root = TRUE]]
        ELSE [st EXCEPT !.err = "bad component"]

\* the component loop: stops at the first panic
RECURSIVE MetaComponents(_, _)
MetaComponents(st, components) ==
    IF components = <<>> \/ st.err # "" THEN st
    ELSE MetaComponents(MetaComponent(st, Head(components)), Tail(components))

\* Fixture::parse_meta_line: [err, fx]; err = "" when it returns
parse_meta_line(meta0) ==
    LET meta == Trim(Drop(meta0, Len(MetaMarker)))
        components == split_ascii_whitespace(meta)
        path == components[1]
    IN  IF ~StartsWith(meta0, MetaMarker)
        THEN [err |-> "assertion failed", fx |-> NewFixture(<<>>)]
        ELSE IF components = <<>>
        THEN [err |-> "index out of bounds", fx |-> NewFixture(<<>>)]
        ELSE IF ~StartsWith(path, <<"/">>)
        THEN [err |-> "fixture path does not start with slash", fx |-> NewFixture(path)]
        ELSE MetaComponents([err |-> "", fx |-> NewFixture(path)], Tail(components))

\* faulty variant used against C5: only the most recently pushed flag is compared
has_flag_last(activated, flag) ==
    activated # <<>> /\ activated[Len(activated)] = flag

\* MiniCore::has_flag
has_flag(activated, flag) == \E i \in 1..Len(activated) : activated[i] = flag

\* the entry loop of MiniCore::parse; st = [err, activated_flags]
RECURSIVE MiniCoreEntries(_, _)
MiniCoreEntries(st, entries) ==
    IF entries = <<>> \/ st.err # "" THEN st
    ELSE IF has_flag(st.activated_flags, Head(entries))
         THEN [st EXCEPT !.err = "duplicate minicore flag"]
         ELSE MiniCoreEntries(
                  [st EXCEPT !.activated_flags = Append(@, Head(entries))],
                  Tail(entries))

\* MiniCore::parse: [err, activated_flags, valid_flags]
MiniCore_parse(line0) ==
    IF ~StartsWith(line0, MiniCoreMarker)
    THEN [err |-> "unwrap on None", activated_flags |-> <<>>, valid_flags |-> <<>>]
    ELSE LET line == Trim(Drop(line0, Len(MiniCoreMarker)))
             st == MiniCoreEntries([err |-> "", activated_flags |-> <<>>],
                                   Split(line, <<",", " ">>))
         IN  [err |-> st.err, activated_flags |-> st.activated_flags,
              valid_flags |-> <<>>]

\* ------------------------------------------------------------------------
\* State
\* ------------------------------------------------------------------------

VARIABLES
    ra_fixture,  \* Fixture::parse: the argument
    fixture,     \* Fixture::parse: the text still to scan
    mini_core,   \* Fixture::parse: Option<MiniCore>
    res,         \* Fixture::parse: Vec<Fixture>
    lines,       \* Fixture::parse: the items of default.chain(lines_with_ends)
    ix,          \* Fixture::parse: number of items already scanned
    pc,          \* Fixture::parse: position in the function
    err,         \* Fixture::parse: panic message, "" while none
    meta_in,     \* parse_meta_line: the argument
    meta_out,    \* parse_meta_line: None before the call, Some([err, fx]) after
    decl_in,     \* MiniCore::parse: the argument
    decl_out,    \* MiniCore::parse: None before the call, Some(result) after
    mc_lines,        \* source_code: the items `lines` has yielded so far
    exhausted,       \* source_code: `lines` has returned None
    body_from,       \* source_code: number of items the preamble loop took
    parsing_flags,   \* source_code: the sentinel line has been passed
    implications,    \* source_code: Vec of <<flag, dep>>
    activated_flags, \* self.activated_flags
    valid_flags,     \* self.valid_flags
    active_regions,  \* source_code: the stack of open regions
    seen_regions,    \* source_code: every region name evaluated so far
    buf,             \* source_code: the text built so far
    passes,          \* source_code: scans of the closure loop finished
    evals,           \* source_code: per evaluated line, its stack and verdict
    mpc,             \* source_code: position in the function
    merr             \* source_code: panic message, "" while none

fxVars == <<ra_fixture, fixture, mini_core, res, lines, ix, pc, err>>

metaVars == <<meta_in, meta_out>>

declVars == <<decl_in, decl_out>>

mcVars == <<mc_lines, exhausted, body_from, parsing_flags, implications,
            activated_flags, valid_flags, active_regions, seen_regions, buf,
            passes, evals, mpc, merr>>

vars == <<fxVars, metaVars, declVars, mcVars>>

\* all sequences over S of length at most n
SeqsUpTo(S, n) == UNION {[1..k -> S] : k \in 0..n}

\* ------------------------------------------------------------------------
\* Fixture::parse
\* ------------------------------------------------------------------------

\* number of text fragments a fixture is put together from
MaxLines == 3

\* the fragments: annotation lines, body lines, indented lines, a misplaced
\* marker, a metadata-looking comment, flag declarations, unterminated text
FixtureFragments ==
    { <<"/", "/", "-", " ", "/", "a", ".", "r", "s", "\n">>, <<"/", "/", "-", " ", "/", "b", ".", "r", "s", " ", "c", "r", "a", "t", "e", ":", "k", "\n">>, <<"x", "\n">>, <<" ", "y", "\n">>,
      <<" ", "/", "/", "-", " ", "/", "c", ".", "r", "s", "\n">>, <<"\n">>, <<"/", "/", " ", "a", ":", "b", "\n">>, <<"/", "/", "-", " ", "m", "i", "n", "i", "c", "o", "r", "e", ":", " ", "x", "\n">>,
      <<"/", "/", "-", " ", "m", "i", "n", "i", "c", "o", "r", "e", ":", " ", "x", ",", " ", "y">>, <<"/", "/", "-", " ", "m", "i", "n", "i", "c", "o", "r", "e", ":", " ", "x", ",", " ", "x", "\n">>, <<"z">>,
      <<"/", "/", "-", " ", "b", ".", "r", "s", "\n">>, <<"x", " ", "/", "/", "-", " ", "/", "d", ".", "r", "s", "\n">> }

FixtureTexts == {Concat(fs) : fs \in SeqsUpTo(FixtureFragments, MaxLines)}

FixtureIdle ==
    /\ ra_fixture = <<>> /\ fixture = <<>> /\ mini_core = None /\ res = <<>>
    /\ lines = <<>> /\ ix = 0 /\ pc = "idle" /\ err = ""

MetaIdle == meta_in = <<>> /\ meta_out = None

DeclIdle == decl_in = <<>> /\ decl_out = None

MiniIdle ==
    /\ mc_lines = <<>> /\ exhausted = FALSE /\ body_from = 0
    /\ parsing_flags = FALSE /\ implications = <<>>
    /\ activated_flags = <<>> /\ valid_flags = <<>>
    /\ active_regions = <<>> /\ seen_regions = <<>> /\ buf = <<>>
    /\ passes = 0 /\ evals = <<>> /\ mpc = "idle" /\ merr = ""

InitFixture ==
    /\ ra_fixture \in FixtureTexts
    /\ fixture = <<>>
    /\ mini_core = None
    /\ res = <<>>
    /\ lines = <<>>
    /\ ix = 0
    /\ pc = "start"
    /\ err = ""
    /\ MetaIdle /\ DeclIdle /\ MiniIdle

\* lines 104-114: normalise the indentation, split off a flag declaration
ParseMiniCoreDecl ==
    /\ pc = "start"
    /\ LET trimmed == trim_indent(ra_fixture)
           first_line == Split(trimmed, <<"\n">>)[1] \o <<"\n">>
           mc == MiniCore_parse(first_line)
       IN  IF ~StartsWith(trimmed, MiniCoreMarker)
           THEN /\ fixture' = trimmed
                /\ pc' = "default"
                /\ UNCHANGED <<mini_core, err>>
           ELSE IF mc.err # ""
           THEN /\ pc' = "panic"
                /\ err' = mc.err
                /\ fixture' = trimmed
                /\ UNCHANGED mini_core
           ELSE IF Len(first_line) > Len(trimmed)
           THEN /\ pc' = "panic"
                /\ err' = "byte index out of range"
                /\ fixture' = trimmed
                /\ mini_core' = Some([activated_flags |-> mc.activated_flags,
                                      valid_flags |-> mc.valid_flags])
           ELSE /\ fixture' = Drop(trimmed, Len(first_line))
                /\ mini_core' = Some([activated_flags |-> mc.activated_flags,
                                      valid_flags |-> mc.valid_flags])
                /\ pc' = "default"
                /\ UNCHANGED err
    /\ UNCHANGED <<ra_fixture, res, lines, ix, metaVars, declVars, mcVars>>

\* faulty variant used against C2: the implicit annotation line is chained after the lines
ParseDefault_after ==
    /\ pc = "default"
    /\ LET default == IF Contains(fixture, MetaMarker) THEN <<>>
                      ELSE <<DefaultMeta>>
       IN  lines' = lines_with_ends(fixture) \o default
    /\ pc' = "scan"
    /\ UNCHANGED <<ra_fixture, fixture, mini_core, res, ix, err, metaVars, declVars, mcVars>>

\* lines 116-118: the implicit annotation line, chained before the lines
ParseDefault ==
    /\ pc = "default"
    /\ LET default == IF Contains(fixture, MetaMarker) THEN <<>>
                      ELSE <<DefaultMeta>>
       IN  lines' = default \o lines_with_ends(fixture)
    /\ pc' = "scan"
    /\ UNCHANGED <<ra_fixture, fixture, mini_core, res, ix, err, metaVars, declVars, mcVars>>

\* faulty variant used against C3: only a marker behind leading whitespace counts as misplaced
InvalidIndentation_leading(line) ==
    StartsWith(TrimStart(line), MetaMarker) /\ ~StartsWith(line, MetaMarker)

\* lines 119-128: the marker is in the line but not at its start
InvalidIndentation(line) ==
    Contains(line, MetaMarker) /\ ~StartsWith(line, MetaMarker)

\* line 134-137: the heuristic for a forgotten annotation marker
LooksLikeMeta(line) ==
    /\ StartsWith(line, <<"/", "/", " ">>)
    /\ Contains(line, <<":">>)
    /\ ~Contains(line, <<":", ":">>)
    /\ \A i \in 1..Len(line) : line[i] \notin UpperCase

\* faulty variant used against C1: the line goes to the first descriptor instead of the last
PushToLast_first(r, line) ==
    IF r = <<>> THEN r
    ELSE [r EXCEPT ![1] = [@ EXCEPT !.text = @ \o line]]

\* entry.text.push_str(line) on res.last_mut(), nothing when res is empty
PushToLast(r, line) ==
    IF r = <<>> THEN r
    ELSE [r EXCEPT ![Len(r)] = [@ EXCEPT !.text = @ \o line]]

\* lines 118-146: one iteration of the scan loop
ScanLine ==
    /\ pc = "scan"
    /\ ix < Len(lines)
    /\ LET line == lines[ix + 1]
           meta == parse_meta_line(line)
       IN  IF InvalidIndentation(line)
           THEN /\ pc' = "panic"
                /\ err' = "invalid indentation"
                /\ UNCHANGED <<res, ix>>
           ELSE IF StartsWith(line, MetaMarker)
           THEN IF meta.err # ""
                THEN /\ pc' = "panic"
                     /\ err' = meta.err
                     /\ UNCHANGED <<res, ix>>
                ELSE /\ res' = Append(res, meta.fx)
                     /\ ix' = ix + 1
                     /\ UNCHANGED <<pc, err>>
           ELSE IF LooksLikeMeta(line)
           THEN /\ pc' = "panic"
                /\ err' = "looks like invalid metadata line"
                /\ UNCHANGED <<res, ix>>
           ELSE /\ res' = PushToLast(res, line)
                /\ ix' = ix + 1
                /\ UNCHANGED <<pc, err>>
    /\ UNCHANGED <<ra_fixture, fixture, mini_core, lines, metaVars, declVars, mcVars>>

\* line 148: the loop is over, return (mini_core, res)
ParseReturn ==
    /\ pc = "scan"
    /\ ix = Len(lines)
    /\ pc' = "done"
    /\ UNCHANGED <<ra_fixture, fixture, mini_core, res, lines, ix, err, metaVars, declVars, mcVars>>

NextFixture == ParseMiniCoreDecl \/ ParseDefault \/ ScanLine \/ ParseReturn

SpecFixture == InitFixture /\ [][NextFixture]_vars

\* ------------------------------------------------------------------------
\* Properties of Fixture::parse
\* ------------------------------------------------------------------------

\* indices of the annotation lines among ls
AnnotLines(ls) == {i \in 1..Len(ls) : StartsWith(ls[i], MetaMarker)}

\* index of the first annotation line after line i, Len(ls) + 1 when none
NextAnnot(ls, i) ==
    LET later == {j \in AnnotLines(ls) : j > i} \cup {Len(ls) + 1}
    IN  CHOOSE j \in later : \A k \in later : j <= k

\* how many annotation lines there are up to line i
AnnotRank(ls, i) == Cardinality({j \in AnnotLines(ls) : j <= i})

\* the lines containing the marker without starting with it
Misplaced(ls) == {i \in 1..Len(ls) : Contains(ls[i], MetaMarker)
                                      /\ ~StartsWith(ls[i], MetaMarker)}

\* C1: when the scanned text starts with an annotation line and every line
\* holding the marker starts with it, the returned descriptors are one per
\* annotation line, in their order, and the text of each is the concatenation
\* of the lines between its annotation line and the next one (or the end).
C1_DescriptorPerAnnotation ==
    LET ls == lines_with_ends(fixture)
    IN  (pc = "done" /\ ls # <<>> /\ StartsWith(ls[1], MetaMarker)
            /\ Misplaced(ls) = {})
        => /\ Len(res) = Cardinality(AnnotLines(ls))
           /\ \A i \in AnnotLines(ls) :
                 res[AnnotRank(ls, i)] =
                    [parse_meta_line(ls[i]).fx EXCEPT
                        !.text = Concat(SubSeq(ls, i + 1, NextAnnot(ls, i) - 1))]

\* C1 witness: two descriptors returned, the first one with body text
C1_Witness ==
    /\ pc = "done"
    /\ Len(res) = 2
    /\ res[1].text # <<>>
    /\ StartsWith(fixture, MetaMarker)

\* C2: a text without any marker, once parsed, gives the single descriptor
\* /main.rs with no settings and the indentation-normalized input as text;
\* such a parse fails only when a line of the normalized text looks like
\* metadata.
C2_DefaultDescriptor ==
    LET ls == lines_with_ends(trim_indent(ra_fixture))
    IN  ~Contains(ra_fixture, MetaMarker)
        => /\ pc = "done" =>
                /\ mini_core = None
                /\ res = <<[NewFixture(<<"/", "m", "a", "i", "n", ".", "r", "s">>) EXCEPT
                               !.text = trim_indent(ra_fixture)]>>
           /\ pc = "panic" =>
                /\ err = "looks like invalid metadata line"
                /\ \E i \in 1..Len(ls) : LooksLikeMeta(ls[i])

\* C2 witness: a marker-free text of two lines, one of them indented, parsed
C2_Witness ==
    /\ pc = "done"
    /\ ~Contains(ra_fixture, MetaMarker)
    /\ Len(lines) = 3
    /\ trim_indent(ra_fixture) # ra_fixture

\* C3: when a line of the normalized text holds the marker without starting
\* with it, parse never returns, and the scan that reaches the first such
\* line fails there with the indentation error.
C3_MisplacedMarkerFails ==
    LET bad == Misplaced(lines_with_ends(trim_indent(ra_fixture)))
        badScan == Misplaced(lines)
    IN  /\ bad # {} => pc # "done"
        /\ (pc = "panic" /\ ix + 1 \in badScan) => err = "invalid indentation"
        /\ (pc = "scan" /\ badScan # {}) => \A i \in badScan : ix < i

\* C3 witness: the parse failed on a misplaced marker after earlier lines had
\* produced a descriptor
C3_Witness ==
    /\ pc = "panic"
    /\ err = "invalid indentation"
    /\ res # <<>>
    /\ ix >= 1

\* C4 (as claimed): whenever the normalized text begins with the
\* flag-declaration marker, terminated or not, parse takes exactly the first
\* line as the declaration and scans the rest; the declaration alone gives
\* the flags and the single empty /main.rs descriptor.
C4_DeclarationLineConsumed ==
    LET t == trim_indent(ra_fixture)
        first == lines_with_ends(t)[1]
        rest == Drop(t, Len(first))
        mc == MiniCore_parse(first)
    IN  (StartsWith(t, MiniCoreMarker) /\ pc \in {"done", "panic"})
        => /\ err # "byte index out of range"
           /\ pc = "done" =>
                /\ fixture = rest
                /\ mini_core = Some([activated_flags |-> mc.activated_flags,
                                     valid_flags |-> <<>>])
           /\ (rest = <<>> /\ mc.err = "") =>
                /\ pc = "done"
                /\ res = <<NewFixture(<<"/", "m", "a", "i", "n", ".", "r", "s">>)>>

\* ------------------------------------------------------------------------
\* Fixture::parse_meta_line as a function of one annotation line
\* ------------------------------------------------------------------------

\* number of comma-separated entries in a generated cfg value
MaxCfgEntries == 3

\* the entries a cfg value is put together from
CfgEntryPool == { <<"a">>, <<"k", "=", "v">>, <<"k", "=", "v", "=", "w">>, <<>>, <<"k", "=", "b", ":", "c">> }

\* the tokens that may stand before and after the cfg token
SideTokens ==
    { <<"c", "r", "a", "t", "e", ":", "a">>, <<"c", "r", "a", "t", "e", ":", "a", ":", "b">>, <<"d", "e", "p", "s", ":", "a", ",", "b">>, <<"e", "d", "i", "t", "i", "o", "n", ":", "e">>,
      <<"e", "n", "v", ":", "K", "=", "v", ",", "x", ",", "K", "=", "w">>, <<"n", "e", "w", "_", "s", "o", "u", "r", "c", "e", "_", "r", "o", "o", "t">>, <<"n", "e", "w", "_", "s", "o", "u", "r", "c", "e", "_", "r", "o", "o", "t", ":">>,
      <<"n", "e", "w", "_", "s", "o", "u", "r", "c", "e", "_", "r", "o", "o", "t", ":", "r">>, <<"b", "o", "g", "u", "s", ":", "1">>, <<"c", "f", "g", ":", "z">> }

\* the pieces joined by sep
RECURSIVE Join(_, _)
Join(ss, sep) ==
    IF ss = <<>> THEN <<>>
    ELSE IF Len(ss) = 1 THEN ss[1]
    ELSE ss[1] \o sep \o Join(Tail(ss), sep)

CfgTokens ==
    {<<"c", "f", "g", ":">> \o Join(es, <<",">>) :
        es \in SeqsUpTo(CfgEntryPool, MaxCfgEntries) \ {<<>>}}

\* an annotation line: the path, then up to three tokens
MetaLines ==
    {<<"/", "/", "-", " ", "/", "a", ".", "r", "s">> \o Concat([i \in 1..Len(ts) |-> <<" ">> \o ts[i]]) :
        ts \in {Concat(<<a, c, b>>) :
                  a \in {<<>>} \cup {<<t>> : t \in SideTokens},
                  c \in {<<>>} \cup {<<t>> : t \in CfgTokens},
                  b \in {<<>>} \cup {<<t>> : t \in SideTokens}}}

InitMeta ==
    /\ meta_in \in MetaLines
    /\ meta_out = None
    /\ FixtureIdle /\ DeclIdle /\ MiniIdle

\* lines 152-218: the call of parse_meta_line
CallParseMetaLine ==
    /\ meta_out = None
    /\ meta_in # <<>>
    /\ meta_out' = Some(parse_meta_line(meta_in))
    /\ UNCHANGED <<meta_in, fxVars, declVars, mcVars>>

NextMeta == CallParseMetaLine

SpecMeta == InitMeta /\ [][NextMeta]_vars

\* the setting tokens of the annotation line meta_in
MetaTokens == Tail(split_ascii_whitespace(Drop(meta_in, Len(MetaMarker))))

\* the text of a token before its first colon (the whole token without one)
KeyOf(token) ==
    LET kv == split_once(token, <<":">>)
    IN  IF kv = None THEN token ELSE kv[1][1]

\* the text of a token after its first colon
ValueOf(token) == split_once(token, <<":">>)[1][2]

\* the positions of the tokens with a colon and the given key
TokensWithKey(key) ==
    {i \in 1..Len(MetaTokens) :
        Contains(MetaTokens[i], <<":">>) /\ KeyOf(MetaTokens[i]) = key}

\* C6 (as claimed): in a parsed line the compilation-unit name is the whole
\* text after the first colon of the (last) crate token, further colons
\* included.
C6_SplitOnFirstColon ==
    LET crates == TokensWithKey(<<"c", "r", "a", "t", "e">>)
        last == CHOOSE i \in crates : \A j \in crates : j <= i
    IN  (meta_out # None /\ meta_out[1].err = "" /\ crates # {})
        => meta_out[1].fx.krate = Some(ValueOf(MetaTokens[last]))

\* C7 (as claimed): the bare token new_source_root parses and sets the flag;
\* a parsed line without that token leaves the flag false.
C7_BareMarkerParses ==
    LET named == \E i \in 1..Len(MetaTokens) :
                    KeyOf(MetaTokens[i]) = <<"n", "e", "w", "_", "s", "o", "u", "r", "c", "e", "_", "r", "o", "o", "t">>
    IN  meta_out # None
        => /\ MetaTokens = << <<"n", "e", "w", "_", "s", "o", "u", "r", "c", "e", "_", "r", "o", "o", "t">> >> =>
                /\ meta_out[1].err = ""
                /\ meta_out[1].fx.introduce_new_source_root
           /\ (~named /\ meta_out[1].err = "") =>
                ~meta_out[1].fx.introduce_new_source_root

\* C7 (amended): a line with the bare token new_source_root (no colon) is
\* rejected; a parsed line has the flag set exactly when one of its tokens
\* has a colon and the key new_source_root; the token new_source_root:
\* (empty value) alone parses and sets the flag.
C7_MarkerNeedsColon ==
    LET bare == \E i \in 1..Len(MetaTokens) : MetaTokens[i] = <<"n", "e", "w", "_", "s", "o", "u", "r", "c", "e", "_", "r", "o", "o", "t">>
    IN  meta_out # None
        => /\ bare => meta_out[1].err # ""
           /\ meta_out[1].err = "" =>
                (meta_out[1].fx.introduce_new_source_root
                    <=> TokensWithKey(<<"n", "e", "w", "_", "s", "o", "u", "r", "c", "e", "_", "r", "o", "o", "t">>) # {})
           /\ MetaTokens = << <<"n", "e", "w", "_", "s", "o", "u", "r", "c", "e", "_", "r", "o", "o", "t", ":">> >> =>
                /\ meta_out[1].err = ""
                /\ meta_out[1].fx.introduce_new_source_root

\* C7 witness: a line with the token new_source_root: and a further token
\* was parsed and has the flag set
C7_Witness ==
    /\ meta_out # None
    /\ meta_out[1].err = ""
    /\ meta_out[1].fx.introduce_new_source_root
    /\ Len(MetaTokens) >= 2
    /\ \E i \in 1..Len(MetaTokens) : MetaTokens[i] = <<"n", "e", "w", "_", "s", "o", "u", "r", "c", "e", "_", "r", "o", "o", "t", ":">>

\* C8 (as claimed): for a parsed line with one cfg token, cfg_atoms are the
\* comma-separated entries of its value (the text after the first colon)
\* without `=`, and cfg_key_values the entries with `=` split at the first
\* `=`, both in source order.
C8_CfgSubsequences ==
    LET cfgs == TokensWithKey(<<"c", "f", "g">>)
        tok == MetaTokens[CHOOSE i \in cfgs : TRUE]
        entries == Split(ValueOf(tok), <<",">>)
        withEq == SelectSeq(entries, LAMBDA e : Contains(e, <<"=">>))
    IN  (meta_out # None /\ meta_out[1].err = "" /\ Cardinality(cfgs) = 1)
        => /\ meta_out[1].fx.cfg_atoms =
                SelectSeq(entries, LAMBDA e : ~Contains(e, <<"=">>))
           /\ meta_out[1].fx.cfg_key_values =
                [i \in 1..Len(withEq) |-> split_once(withEq[i], <<"=">>)[1]]

\* ------------------------------------------------------------------------
\* MiniCore::parse as a function of one declaration line
\* ------------------------------------------------------------------------

\* number of flag names in a generated declaration
MaxDeclNames == 3

\* the names a declaration is written from; none holds the separator ", "
DeclNames == { <<"x">>, <<"y">>, <<"X">>, <<"x", ",", "y">> }

\* the declaration line written from the names
DeclLine(names, pad, tail) ==
    MiniCoreMarker \o pad \o Join(names, <<",", " ">>) \o tail

DeclLines ==
    {DeclLine(names, pad, tail) :
        names \in SeqsUpTo(DeclNames, MaxDeclNames),
        pad \in {<<>>, <<" ">>}, tail \in {<<>>, <<"\n">>}}

InitDecl ==
    /\ decl_in \in DeclLines
    /\ decl_out = None
    /\ FixtureIdle /\ MetaIdle /\ MiniIdle

\* lines 233-245: the call of MiniCore::parse
CallMiniCoreParse ==
    /\ decl_out = None
    /\ decl_in # <<>>
    /\ decl_out' = Some(MiniCore_parse(decl_in))
    /\ UNCHANGED <<decl_in, fxVars, metaVars, mcVars>>

NextDecl == CallMiniCoreParse

SpecDecl == InitDecl /\ [][NextDecl]_vars

\* some name stands at two positions
HasDuplicate(names) ==
    \E i, j \in 1..Len(names) : i # j /\ names[i] = names[j]

\* C5: MiniCore::parse of the declaration written from a list of names
\* returns those names in order as activated_flags (the single empty name
\* for an empty list), with valid_flags empty, and fails exactly when a name
\* is repeated.
C5_DeclaredFlags ==
    decl_out # None
    => \A names \in SeqsUpTo(DeclNames, MaxDeclNames) :
       \A pad \in {<<>>, <<" ">>} : \A tail \in {<<>>, <<"\n">>} :
          DeclLine(names, pad, tail) = decl_in
          => LET expect == IF names = <<>> THEN << <<>> >> ELSE names
             IN  /\ decl_out[1].err # "" <=> HasDuplicate(expect)
                 /\ decl_out[1].err # "" =>
                        decl_out[1].err = "duplicate minicore flag"
                 /\ decl_out[1].err = "" =>
                        /\ decl_out[1].activated_flags = expect
                        /\ decl_out[1].valid_flags = <<>>

\* C5 witness: a declaration of three distinct names was parsed
C5_Witness ==
    /\ decl_out # None
    /\ decl_out[1].err = ""
    /\ Len(decl_out[1].activated_flags) = 3

\* ------------------------------------------------------------------------
\* MiniCore::source_code
\* ------------------------------------------------------------------------
\* The text of minicore.rs is an input: `lines` (raw_mini_core.split('\n'))
\* yields one piece without '\n' per step, drawn from the sets below, and
\* then None.  mc_lines records the pieces yielded so far.

\* number of `//!` lines in the preamble
MaxPreamble == 4

\* number of lines after the preamble
MaxBody == 3

\* the flag declarations a test may start with
MiniDecls ==
    { <<"/", "/", "-", " ", "m", "i", "n", "i", "c", "o", "r", "e", ":", " ", "x", "\n">>, <<"/", "/", "-", " ", "m", "i", "n", "i", "c", "o", "r", "e", ":", " ", "y", "\n">>, <<"/", "/", "-", " ", "m", "i", "n", "i", "c", "o", "r", "e", ":", " ", "z", "\n">>,
      <<"/", "/", "-", " ", "m", "i", "n", "i", "c", "o", "r", "e", ":", " ", "x", ",", " ", "y", "\n">>, <<"/", "/", "-", " ", "m", "i", "n", "i", "c", "o", "r", "e", ":", " ", "w", "\n">> }

\* the documentation marker of the preamble
DocMarker == <<"/", "/", "!">>

\* the sentinel that starts the flag list
Sentinel == <<"A", "v", "a", "i", "l", "a", "b", "l", "e", " ", "f", "l", "a", "g", "s", ":">>

\* preamble lines before the flag list
DocLines == { <<"/", "/", "!", " ", "d", "o", "c">>, <<"/", "/", "!", " ", "A", "v", "a", "i", "l", "a", "b", "l", "e", " ", "f", "l", "a", "g", "s", ":">> }

\* preamble lines of the flag list: plain flags, dependencies, a flag that
\* names itself, a dependency that may not be declared yet
FlagLines ==
    { <<"/", "/", "!", " ", " ", " ", " ", " ", "x">>, <<"/", "/", "!", " ", " ", " ", " ", " ", "y", ":", " ", "x">>, <<"/", "/", "!", " ", " ", " ", " ", " ", "z", ":", " ", "y">>, <<"/", "/", "!", " ", " ", " ", " ", " ", "x", ":", " ", "x">>,
      <<"/", "/", "!", " ", " ", " ", " ", " ", "y", ":", " ", "z">>, <<"/", "/", "!", " ", " ", " ", " ", " ", "z", ":", " ", "x", ",", " ", "y">> }

\* lines that end the preamble: a blank one and one that is not blank
EndLines == { <<>>, <<"f", "n", " ", "f", "(", ")", " ", "{", "}">> }

\* the lines of the body
BodyLines ==
    { <<>>, <<"f">>, <<"/", "/", " ", "r", "e", "g", "i", "o", "n", ":", "x">>, <<"/", "/", " ", "e", "n", "d", "r", "e", "g", "i", "o", "n", ":", "x">>, <<"/", "/", " ", "r", "e", "g", "i", "o", "n", ":", "y">>,
      <<"/", "/", " ", "e", "n", "d", "r", "e", "g", "i", "o", "n", ":", "y">>, <<"g", " ", "/", "/", " ", ":", "x">>, <<"h", " ", "/", "/", " ", ":", "y">>, <<"/", "/", " ", "r", "e", "g", "i", "o", "n", ":", "w">>,
      <<"/", "/", " ", "e", "n", "d", "r", "e", "g", "i", "o", "n", ":", "w">> }

\* MiniCore::assert_valid_flag: TRUE when it returns, FALSE when it panics
assert_valid_flag(valid, flag) == \E i \in 1..Len(valid) : valid[i] = flag

InitMiniCore ==
    /\ decl_in \in MiniDecls
    /\ MiniCore_parse(decl_in).err = ""
    /\ decl_out = Some(MiniCore_parse(decl_in))
    /\ activated_flags = MiniCore_parse(decl_in).activated_flags
    /\ valid_flags = MiniCore_parse(decl_in).valid_flags
    /\ mc_lines = <<>>
    /\ exhausted = FALSE
    /\ body_from = 0
    /\ parsing_flags = FALSE
    /\ implications = <<>>
    /\ active_regions = <<>>
    /\ seen_regions = <<>>
    /\ buf = <<>>
    /\ passes = 0
    /\ evals = <<>>
    /\ mpc = "preamble"
    /\ merr = ""
    /\ FixtureIdle /\ MetaIdle

\* lines 271-288: flag and deps of a preamble line, the first two pieces of
\* split(':')
FlagAndDeps(line) ==
    LET splitted == Split(line, <<":">>)
    IN  [flag |-> splitted[1],
         deps |-> IF Len(splitted) >= 2 THEN splitted[2] ELSE <<>>]

\* lines 291-297: the loop over the dependencies of one flag;
\* st = [err, implications]
RECURSIVE PreambleDeps(_, _, _, _)
PreambleDeps(st, valid, flag, deps) ==
    IF deps = <<>> \/ st.err # "" THEN st
    ELSE LET dep == Trim(Head(deps))
         IN  IF dep = <<>> THEN PreambleDeps(st, valid, flag, Tail(deps))
             ELSE IF ~assert_valid_flag(valid, dep)
                  THEN [st EXCEPT !.err = "invalid flag"]
                  ELSE PreambleDeps(
                           [st EXCEPT !.implications = Append(@, <<flag, dep>>)],
                           valid, flag, Tail(deps))

\* lines 259-303: one iteration of the preamble loop, or its end when
\* `lines` is exhausted
PreambleLine ==
    /\ mpc = "preamble"
    /\ \/ /\ mc_lines # <<>>
          /\ exhausted' = TRUE
          /\ mpc' = "assert_flags"
          /\ body_from' = Len(mc_lines)
          /\ UNCHANGED <<mc_lines, parsing_flags, implications, valid_flags, merr>>
       \/ \E raw \in EndLines \cup
                      (IF Len(mc_lines) >= MaxPreamble THEN {}
                       ELSE IF parsing_flags THEN FlagLines ELSE DocLines) :
             /\ mc_lines' = Append(mc_lines, raw)
             /\ body_from' = Len(mc_lines) + 1
             /\ UNCHANGED exhausted
             /\ IF ~StartsWith(raw, DocMarker)
                THEN /\ IF Trim(raw) = <<>>
                        THEN mpc' = "assert_flags" /\ merr' = merr
                        ELSE mpc' = "panic" /\ merr' = "assertion failed"
                     /\ UNCHANGED <<parsing_flags, implications, valid_flags>>
                ELSE LET line == Drop(raw, Len(DocMarker)) \o <<"\n">>
                         fd == FlagAndDeps(line)
                         flag == Trim(fd.flag)
                         valid == Append(valid_flags, flag)
                         st == PreambleDeps(
                                   [err |-> "", implications |-> implications],
                                   valid, flag, Split(fd.deps, <<",", " ">>))
                     IN  /\ IF parsing_flags
                            THEN /\ valid_flags' = valid
                                 /\ implications' = st.implications
                                 /\ merr' = st.err
                                 /\ mpc' = IF st.err # "" THEN "panic" ELSE mpc
                            ELSE UNCHANGED <<valid_flags, implications, merr, mpc>>
                         /\ parsing_flags' =
                                (parsing_flags \/ Contains(line, Sentinel))
    /\ UNCHANGED <<activated_flags, active_regions, seen_regions, buf, passes,
                   evals, fxVars, metaVars, declVars>>

\* faulty variant used against C14: the declared flags are not checked
AssertFlags_skip ==
    /\ mpc = "assert_flags"
    /\ mpc' = "closure"
    /\ UNCHANGED <<mc_lines, exhausted, body_from, parsing_flags, implications,
                   activated_flags, valid_flags, active_regions, seen_regions,
                   buf, passes, evals, merr, fxVars, metaVars, declVars>>

\* lines 305-307: every declared flag must be a valid one
AssertFlags ==
    /\ mpc = "assert_flags"
    /\ IF \A i \in 1..Len(activated_flags) :
             assert_valid_flag(valid_flags, activated_flags[i])
       THEN mpc' = "closure" /\ merr' = merr
       ELSE mpc' = "panic" /\ merr' = "invalid flag"
    /\ UNCHANGED <<mc_lines, exhausted, body_from, parsing_flags, implications,
                   activated_flags, valid_flags, active_regions, seen_regions,
                   buf, passes, evals, fxVars, metaVars, declVars>>

\* faulty variant used against C9: an activation does not set `changed`
RECURSIVE ScanEdges_unchanged(_, _)
ScanEdges_unchanged(st, edges) ==
    IF edges = <<>> THEN st
    ELSE LET u == Head(edges)[1]
             v == Head(edges)[2]
         IN  IF has_flag(st.activated, u) /\ ~has_flag(st.activated, v)
             THEN ScanEdges_unchanged(
                      [st EXCEPT !.activated = Append(@, v)], Tail(edges))
             ELSE ScanEdges_unchanged(st, Tail(edges))

\* faulty variant used against C10: the edges are followed from dependency to flag
RECURSIVE ScanEdges_reversed(_, _)
ScanEdges_reversed(st, edges) ==
    IF edges = <<>> THEN st
    ELSE LET u == Head(edges)[2]
             v == Head(edges)[1]
         IN  IF has_flag(st.activated, u) /\ ~has_flag(st.activated, v)
             THEN ScanEdges_reversed(
                      [activated |-> Append(st.activated, v), changed |-> TRUE],
                      Tail(edges))
             ELSE ScanEdges_reversed(st, Tail(edges))

\* faulty variant used against C18: the target is pushed even when it is
\* already activated
RECURSIVE ScanEdges_readd(_, _)
ScanEdges_readd(st, edges) ==
    IF edges = <<>> THEN st
    ELSE LET u == Head(edges)[1]
             v == Head(edges)[2]
         IN  IF has_flag(st.activated, u)
             THEN ScanEdges_readd(
                      [activated |-> Append(st.activated, v), changed |-> TRUE],
                      Tail(edges))
             ELSE ScanEdges_readd(st, Tail(edges))

\* lines 312-317: one scan of all edges; st = [activated, changed]
RECURSIVE ScanEdges(_, _)
ScanEdges(st, edges) ==
    IF edges = <<>> THEN st
    ELSE LET u == Head(edges)[1]
             v == Head(edges)[2]
         IN  IF has_flag(st.activated, u) /\ ~has_flag(st.activated, v)
             THEN ScanEdges(
                      [activated |-> Append(st.activated, v), changed |-> TRUE],
                      Tail(edges))
             ELSE ScanEdges(st, Tail(edges))

\* lines 310-321: one iteration of the fixed point loop
ClosurePass ==
    /\ mpc = "closure"
    /\ LET st == ScanEdges([activated |-> activated_flags, changed |-> FALSE],
                           implications)
       IN  /\ activated_flags' = st.activated
           /\ mpc' = IF st.changed THEN "closure" ELSE "filter"
    /\ passes' = passes + 1
    /\ UNCHANGED <<mc_lines, exhausted, body_from, parsing_flags, implications,
                   valid_flags, active_regions, seen_regions, buf, evals, merr,
                   fxVars, metaVars, declVars>>

\* the block markers and the inline marker of the body
RegionStart == <<"/", "/", " ", "r", "e", "g", "i", "o", "n", ":">>

RegionEnd == <<"/", "/", " ", "e", "n", "d", "r", "e", "g", "i", "o", "n", ":">>

RegionInline == <<"/", "/", " ", ":">>

\* faulty variant used against C11: only the innermost region decides
RECURSIVE EvalRegions_top(_, _, _, _)
EvalRegions_top(st, valid, activated, regions) ==
    IF regions = <<>> \/ st.err # "" THEN st
    ELSE LET region == Head(regions)
         IN  IF StartsWith(region, <<" ">>)
             THEN [st EXCEPT !.err = "region marker starts with a space"]
             ELSE IF ~assert_valid_flag(valid, region)
             THEN [st EXCEPT !.err = "invalid flag"]
             ELSE EvalRegions_top(
                      [err |-> "", seen |-> Append(st.seen, region),
                       keep |-> has_flag(activated, region)],
                      valid, activated, Tail(regions))

\* lines 343-353: the loop over the open regions; st = [err, seen, keep]
RECURSIVE EvalRegions(_, _, _, _)
EvalRegions(st, valid, activated, regions) ==
    IF regions = <<>> \/ st.err # "" THEN st
    ELSE LET region == Head(regions)
         IN  IF StartsWith(region, <<" ">>)
             THEN [st EXCEPT !.err = "region marker starts with a space"]
             ELSE IF ~assert_valid_flag(valid, region)
             THEN [st EXCEPT !.err = "invalid flag"]
             ELSE EvalRegions(
                      [err |-> "", seen |-> Append(st.seen, region),
                       keep |-> st.keep /\ has_flag(activated, region)],
                      valid, activated, Tail(regions))

\* faulty variant used against C19: the inline region stays on the stack
PopInline_keep(stack, line_region) == stack

\* lines 358-360: the region an inline marker pushed is popped again
PopInline(stack, line_region) ==
    IF line_region THEN SubSeq(stack, 1, Len(stack) - 1) ELSE stack

\* lines 325-361: one iteration of the filter loop
FilterLine ==
    /\ mpc = "filter"
    /\ ~exhausted
    /\ Len(mc_lines) - body_from < MaxBody
    /\ \E line \in BodyLines :
          LET trimmed == Trim(line)
              idx == Find(trimmed, RegionInline)
              stack == IF idx # 0
                       THEN Append(active_regions,
                                   Drop(trimmed, idx - 1 + Len(RegionInline)))
                       ELSE active_regions
              st == EvalRegions([err |-> "", seen |-> seen_regions, keep |-> TRUE],
                                valid_flags, activated_flags, stack)
          IN  /\ mc_lines' = Append(mc_lines, line)
              /\ IF StartsWith(trimmed, RegionStart)
                 THEN /\ active_regions' =
                            Append(active_regions, Drop(trimmed, Len(RegionStart)))
                      /\ UNCHANGED <<seen_regions, buf, evals, mpc, merr>>
                 ELSE IF StartsWith(trimmed, RegionEnd)
                 THEN IF active_regions = <<>>
                      THEN /\ mpc' = "panic"
                           /\ merr' = "unwrap on None"
                           /\ UNCHANGED <<active_regions, seen_regions, buf, evals>>
                      ELSE /\ active_regions' =
                                 SubSeq(active_regions, 1, Len(active_regions) - 1)
                           /\ IF active_regions[Len(active_regions)]
                                    = Drop(trimmed, Len(RegionEnd))
                              THEN UNCHANGED <<mpc, merr>>
                              ELSE mpc' = "panic" /\ merr' = "assertion failed"
                           /\ UNCHANGED <<seen_regions, buf, evals>>
                 ELSE /\ seen_regions' = st.seen
                      /\ IF st.err # ""
                         THEN /\ mpc' = "panic"
                              /\ merr' = st.err
                              /\ active_regions' = stack
                              /\ UNCHANGED <<buf, evals>>
                         ELSE /\ buf' = IF st.keep THEN buf \o line ELSE buf
                              /\ evals' = Append(evals,
                                     [line |-> line, stack |-> stack,
                                      keep |-> st.keep])
                              /\ active_regions' = PopInline(stack, idx # 0)
                              /\ UNCHANGED <<mpc, merr>>
    /\ UNCHANGED <<exhausted, body_from, parsing_flags, implications,
                   activated_flags, valid_flags, passes, fxVars, metaVars,
                   declVars>>

\* line 325: `lines` returns None, the filter loop is over
FilterEnd ==
    /\ mpc = "filter"
    /\ exhausted' = TRUE
    /\ mpc' = "unused"
    /\ UNCHANGED <<mc_lines, body_from, parsing_flags, implications,
                   activated_flags, valid_flags, active_regions, seen_regions,
                   buf, passes, evals, merr, fxVars, metaVars, declVars>>

\* faulty variant used against C15: the seen record is not consulted
UnusedCheck_skip ==
    /\ mpc = "unused"
    /\ mpc' = "done"
    /\ UNCHANGED <<mc_lines, exhausted, body_from, parsing_flags, implications,
                   activated_flags, valid_flags, active_regions, seen_regions,
                   buf, passes, evals, merr, fxVars, metaVars, declVars>>

\* lines 363-369: every valid flag must have been seen; return buf
UnusedCheck ==
    /\ mpc = "unused"
    /\ IF \A i \in 1..Len(valid_flags) :
             \E j \in 1..Len(seen_regions) : seen_regions[j] = valid_flags[i]
       THEN mpc' = "done" /\ merr' = merr
       ELSE mpc' = "panic" /\ merr' = "unused minicore flag"
    /\ UNCHANGED <<mc_lines, exhausted, body_from, parsing_flags, implications,
                   activated_flags, valid_flags, active_regions, seen_regions,
                   buf, passes, evals, fxVars, metaVars, declVars>>

NextMiniCore ==
    PreambleLine \/ AssertFlags \/ ClosurePass \/ FilterLine \/ FilterEnd
        \/ UnusedCheck

SpecMiniCore == InitMiniCore /\ [][NextMiniCore]_vars

\* ------------------------------------------------------------------------
\* Properties of the closure loop
\* ------------------------------------------------------------------------

\* the flags the caller declared (MiniCore::parse of the declaration)
InitFlags == decl_out[1].activated_flags

\* the elements of a sequence
Range(q) == {q[i] : i \in 1..Len(q)}

\* the closure loop has exited and the filter has not failed
AfterClosure == mpc \in {"filter", "unused", "done"}

\* the flags reachable from S along zero or more edges of E: the end points
\* of the paths that start in S
ReachableFrom(S, E) ==
    LET N == S \cup {e[1] : e \in E} \cup {e[2] : e \in E}
        paths == {q \in SeqsUpTo(N, Cardinality(N)) :
                    /\ q # <<>>
                    /\ q[1] \in S
                    /\ \A i \in 1..(Len(q) - 1) : <<q[i], q[i + 1]>> \in E}
    IN  {q[Len(q)] : q \in paths}

\* C9: once the closure loop has exited, the activated flags are closed under
\* the implication edges, the declared flags are still the first activated
\* ones, and one more scan of the edges changes nothing.
C9_ClosureFixedPoint ==
    AfterClosure
    => /\ \A i \in 1..Len(implications) :
             has_flag(activated_flags, implications[i][1])
                => has_flag(activated_flags, implications[i][2])
       /\ SubSeq(activated_flags, 1, Len(InitFlags)) = InitFlags
       /\ LET again == ScanEdges([activated |-> activated_flags,
                                  changed |-> FALSE], implications)
          IN  ~again.changed /\ again.activated = activated_flags

\* C9 witness: the loop exited after three scans, two of which activated a
\* flag
C9_Witness ==
    /\ mpc = "filter"
    /\ passes = 3
    /\ Len(activated_flags) = Len(InitFlags) + 2

\* C10: during the closure only reachable flags are activated; after it the
\* activated flags are exactly the flags reachable from the declared ones;
\* a line whose only enclosing region is Y is kept exactly when Y is
\* reachable, and the kept lines make up the output.
C10_LeastFixedPoint ==
    LET reach == ReachableFrom(Range(InitFlags), Range(implications))
        kept == SelectSeq(evals, LAMBDA e : e.keep)
    IN  /\ mpc = "closure" => Range(activated_flags) \subseteq reach
        /\ AfterClosure =>
              /\ Range(activated_flags) = reach
              /\ \A k \in 1..Len(evals) :
                    Len(evals[k].stack) = 1
                       => (evals[k].keep <=> evals[k].stack[1] \in reach)
              /\ buf = Concat([k \in 1..Len(kept) |-> kept[k].line])

\* C10 witness: source_code returned, and a line gated only on a flag that
\* the caller did not declare was kept in the output
C10_Witness ==
    /\ mpc = "done"
    /\ \E k \in 1..Len(evals) :
          /\ Len(evals[k].stack) = 1
          /\ evals[k].stack[1] \notin Range(InitFlags)
          /\ evals[k].keep
          /\ evals[k].line # <<>>
          /\ Contains(buf, evals[k].line)

\* ------------------------------------------------------------------------
\* Properties of the region filter
\* ------------------------------------------------------------------------

\* the lines `lines` has yielded to the filter loop
Body == SubSeq(mc_lines, body_from + 1, Len(mc_lines))

\* the text of the body as it stands in the resource
BodyText == Join(Body, <<"\n">>)

\* a `// region:` line, a `// endregion:` line
IsRegionStart(line) == StartsWith(Trim(line), RegionStart)

IsRegionEnd(line) ==
    ~IsRegionStart(line) /\ StartsWith(Trim(line), RegionEnd)

\* the name a block marker line carries
MarkerName(line) ==
    IF IsRegionStart(line) THEN Drop(Trim(line), Len(RegionStart))
    ELSE Drop(Trim(line), Len(RegionEnd))

\* the name of the inline marker of a line, None without one
InlineName(line) ==
    LET t == Trim(line)
        idx == Find(t, RegionInline)
    IN  IF idx = 0 THEN None ELSE Some(Drop(t, idx - 1 + Len(RegionInline)))

\* the block regions open after the first n lines of ls, read off the
\* markers alone
RECURSIVE OpenAfter(_, _)
OpenAfter(ls, n) ==
    IF n = 0 THEN <<>>
    ELSE LET before == OpenAfter(ls, n - 1)
         IN  IF IsRegionStart(ls[n]) THEN Append(before, MarkerName(ls[n]))
             ELSE IF IsRegionEnd(ls[n]) /\ before # <<>>
             THEN SubSeq(before, 1, Len(before) - 1)
             ELSE before

\* the region stack of line i: the open block regions, then its inline one
StackAt(ls, i) == OpenAfter(ls, i - 1) \o InlineName(ls[i])

\* the positions of the lines that are not block markers
PlainLines(ls) ==
    {i \in 1..Len(ls) : ~IsRegionStart(ls[i]) /\ ~IsRegionEnd(ls[i])}

\* the k-th smallest element of a set of numbers
Nth(S, k) == CHOOSE i \in S : Cardinality({j \in S : j <= i}) = k

\* the filter loop is running or over, and has not failed
Filtering == mpc \in {"filter", "unused", "done"}

\* the positions of the lines that went into the output
EmittedLines(ls) ==
    {i \in PlainLines(ls) :
        \A r \in Range(StackAt(ls, i)) : has_flag(activated_flags, r)}

\* C11: the lines evaluated so far are the lines that are not block markers,
\* in order; each was kept exactly when every name of its region stack
\* (block regions around it and its own inline region) is activated; the
\* output holds the kept lines and nothing else, so no block marker line and
\* no line under a non-activated region.
C11_KeptIffStackActivated ==
    LET plain == PlainLines(Body)
        emitted == EmittedLines(Body)
    IN  Filtering
        => /\ Len(evals) = Cardinality(plain)
           /\ \A k \in 1..Len(evals) :
                 LET i == Nth(plain, k)
                 IN  /\ evals[k].line = Body[i]
                     /\ evals[k].keep <=> i \in emitted
           /\ buf = Concat([k \in 1..Cardinality(emitted) |->
                              Body[Nth(emitted, k)]])

\* C11 witness: a line was dropped although its innermost region is
\* activated, because an outer region is not
C11_Witness ==
    /\ Filtering
    /\ \E k \in 1..Len(evals) :
          /\ Len(evals[k].stack) = 2
          /\ has_flag(activated_flags, evals[k].stack[2])
          /\ ~has_flag(activated_flags, evals[k].stack[1])
          /\ ~evals[k].keep

\* every `// endregion:` among the first n lines names the innermost region
\* open at its place
RECURSIVE WellNested(_, _)
WellNested(ls, n) ==
    \/ n = 0
    \/ /\ WellNested(ls, n - 1)
       /\ IsRegionEnd(ls[n]) =>
             /\ OpenAfter(ls, n - 1) # <<>>
             /\ OpenAfter(ls, n - 1)[Len(OpenAfter(ls, n - 1))] = MarkerName(ls[n])

\* the markers are properly nested and every region is closed
Balanced(ls) == WellNested(ls, Len(ls)) /\ OpenAfter(ls, Len(ls)) = <<>>

\* C12 (as claimed): source_code returns only for a body whose block markers
\* are balanced: every end marker closes the innermost open region and no
\* region is open after the last line.
C12_UnbalancedIsFatal == mpc = "done" => Balanced(Body)

\* the region names of a body: those of its `// region:` markers and those of
\* the inline markers of its other lines
RegionNames(ls) ==
    {MarkerName(ls[i]) : i \in {j \in 1..Len(ls) : IsRegionStart(ls[j])}}
        \cup {InlineName(ls[i])[1] :
                i \in {j \in PlainLines(ls) : InlineName(ls[j]) # None}}

\* C13 (as claimed): source_code returns only when every region name of the
\* body is a valid flag, whatever the region holds.
C13_RegionNamesValid ==
    mpc = "done" => RegionNames(Body) \subseteq Range(valid_flags)

\* ------------------------------------------------------------------------
\* Properties of the flag checks
\* ------------------------------------------------------------------------

\* some flag the caller declared is not among the valid flags
UnknownDeclared == \E f \in Range(InitFlags) : f \notin Range(valid_flags)

\* C14: once the preamble is read, a declared flag that is not valid means
\* source_code has failed with no closure scan done, no flag activated, no
\* body line read and nothing emitted; from the start of the closure on,
\* every activated flag is a valid flag.
C14_DeclaredFlagsValid ==
    /\ (mpc \notin {"preamble", "assert_flags"} /\ UnknownDeclared)
       => /\ mpc = "panic"
          /\ passes = 0
          /\ activated_flags = InitFlags
          /\ Body = <<>>
          /\ evals = <<>>
          /\ buf = <<>>
    /\ (mpc \in {"closure", "filter", "unused", "done"} \/ passes > 0)
       => Range(activated_flags) \subseteq Range(valid_flags)

\* C14 witness: the preamble was read to its end, it declares flags with an
\* implication, and source_code failed on a declared flag that is not valid
C14_Witness ==
    /\ mpc = "panic"
    /\ merr = "invalid flag"
    /\ UnknownDeclared
    /\ implications # <<>>
    /\ mc_lines # <<>>
    /\ exhausted \/ Trim(mc_lines[Len(mc_lines)]) = <<>>

\* C15: source_code returns only when every valid flag is a region name of
\* the body; the unused-flag failure comes after `lines` is exhausted, with
\* a valid flag missing from the seen record, and it is the only failure
\* once all body lines are processed.
C15_UnusedFlagFails ==
    /\ mpc = "done" => Range(valid_flags) \subseteq RegionNames(Body)
    /\ merr = "unused minicore flag"
       => /\ mpc = "panic"
          /\ exhausted
          /\ \E f \in Range(valid_flags) : f \notin Range(seen_regions)
    /\ (mpc = "panic" /\ exhausted /\ passes > 0)
       => merr = "unused minicore flag"

\* C15 witness: after a body with evaluated lines, source_code failed on a
\* valid flag that is activated but names no region of the body
C15_Witness ==
    /\ mpc = "panic"
    /\ merr = "unused minicore flag"
    /\ evals # <<>>
    /\ \E f \in Range(valid_flags) :
          /\ f \notin RegionNames(Body)
          /\ has_flag(activated_flags, f)

\* C16 (as claimed): every implication edge <<flag, dep>> has dep declared
\* before flag, no flag depends on itself, and no flag reaches itself along
\* the edges.
C16_EdgesPointBack ==
    /\ \A i \in 1..Len(implications) :
          LET flag == implications[i][1]
              dep == implications[i][2]
          IN  /\ flag # dep
              /\ \E j, k \in 1..Len(valid_flags) :
                    j < k /\ valid_flags[j] = dep /\ valid_flags[k] = flag
    /\ \A f \in Range(valid_flags) :
          f \notin ReachableFrom(
                       {e[2] : e \in {d \in Range(implications) : d[1] = f}},
                       Range(implications))

\* ------------------------------------------------------------------------
\* Further properties of Fixture::parse
\* ------------------------------------------------------------------------

\* C17 (as claimed): every body line the scan has processed came after an
\* annotation line, so it went to a descriptor, and a parse that returns has
\* kept every body line in the text of some descriptor.
C17_NoBodyLineDropped ==
    LET body == SelectSeq(lines, LAMBDA l : ~StartsWith(l, MetaMarker))
    IN  /\ pc \in {"scan", "done"} =>
              \A i \in 1..ix :
                 ~StartsWith(lines[i], MetaMarker)
                    => \E j \in 1..(i - 1) : StartsWith(lines[j], MetaMarker)
        /\ pc = "done" =>
              Concat([k \in 1..Len(res) |-> res[k].text]) = Concat(body)

\* ------------------------------------------------------------------------
\* Termination of the closure loop
\* ------------------------------------------------------------------------

\* no element occurs twice in the sequence
NoRepeats(S) == \A i, j \in 1..Len(S) : S[i] = S[j] => i = j

\* C18: the closure loop ends within (number of distinct flags + 1) passes,
\* whatever the edges (self-edges and cycles included): the declared flags
\* stay a prefix of activated_flags (nothing is removed), no flag is in it
\* twice, and every pass but the last one has added at least one flag.
C18_ClosureTerminates ==
    mpc \in {"closure", "filter", "unused", "done"} =>
        /\ passes <= Cardinality(Range(valid_flags)) + 1
        /\ Len(activated_flags) >= Len(InitFlags)
        /\ SubSeq(activated_flags, 1, Len(InitFlags)) = InitFlags
        /\ NoRepeats(activated_flags)
        /\ mpc = "closure" => Len(activated_flags) >= Len(InitFlags) + passes
        /\ mpc # "closure" =>
              /\ passes >= 1
              /\ Len(activated_flags) >= Len(InitFlags) + passes - 1

\* C18 witness: the loop has ended after a pass that activated a flag, on an
\* edge list that holds a self-edge or a two-flag cycle.
C18_Witness ==
    /\ mpc = "filter"
    /\ passes >= 2
    /\ Len(activated_flags) > Len(InitFlags)
    /\ \E e \in Range(implications) :
          \/ e[1] = e[2]
          \/ <<e[2], e[1]>> \in Range(implications)

\* ------------------------------------------------------------------------
\* Inline region markers
\* ------------------------------------------------------------------------

\* a line with its inline marker (and all after it) taken away
StripInline(line) ==
    LET t == Trim(line)
        idx == Find(t, RegionInline)
    IN  IF idx = 0 \/ IsRegionStart(line) \/ IsRegionEnd(line) THEN line
        ELSE SubSeq(t, 1, idx - 1)

\* C19: an inline marker acts on its own line only.  The name is the top of
\* the stack when its line is decided; below it, the stack of every evaluated
\* line is the stack the body gives with the inline markers of all other
\* lines taken away, and the line is kept exactly when that stack is all
\* activated; after each line the stack holds the open block regions alone.
C19_InlineOwnLineOnly ==
    LET plain == PlainLines(Body)
        bare == [i \in 1..Len(Body) |-> StripInline(Body[i])]
    IN  Filtering
        => /\ active_regions = OpenAfter(bare, Len(Body))
           /\ Len(evals) = Cardinality(plain)
           /\ \A k \in 1..Len(evals) :
                 LET i == Nth(plain, k)
                     own == InlineName(Body[i])
                 IN  /\ evals[k].stack = OpenAfter(bare, i - 1) \o own
                     /\ evals[k].keep <=>
                           \A r \in Range(OpenAfter(bare, i - 1) \o own) :
                              has_flag(activated_flags, r)

\* C19 witness: a line was dropped for its inline region, and a later line
\* without a marker was kept
C19_Witness ==
    /\ Filtering
    /\ \E k1, k2 \in 1..Len(evals) :
          /\ k1 < k2
          /\ InlineName(evals[k1].line) # None
          /\ ~evals[k1].keep
          /\ InlineName(evals[k2].line) = None
          /\ evals[k2].keep

\* ------------------------------------------------------------------------
\* The returned text
\* ------------------------------------------------------------------------

\* line i of the body as it stands in the resource: with the line feed that
\* ends it, which every line but the last piece of the text has
WithTerminator(ls, i) ==
    IF i < Len(ls) THEN ls[i] \o <<"\n">> ELSE ls[i]

\* C20 (as claimed): the returned text is the kept lines in order, each with
\* its line terminator; for a body without region markers it is the body
\* text unchanged.
C20_OutputKeepsTerminators ==
    LET emitted == EmittedLines(Body)
    IN  mpc = "done"
        => /\ buf = Concat([k \in 1..Cardinality(emitted) |->
                              WithTerminator(Body, Nth(emitted, k))])
           /\ (\A i \in 1..Len(Body) :
                  /\ ~IsRegionStart(Body[i])
                  /\ ~IsRegionEnd(Body[i])
                  /\ InlineName(Body[i]) = None)
                 => buf = BodyText

====
